---- MODULE Spec2Model ----
(***************************************************************************)
(* Model of scraper-actor/main.py: the Fandom Velocity scraper job.        *)
(*                                                                         *)
(* main() is one sequential function.  It is modelled as a state machine   *)
(* whose program counter pc walks through the steps of main():             *)
(*   load    lines 17-33   read INPUT.json or APIFY_INPUT                  *)
(*   config  lines 35-42   usernames, mode, starting banner                *)
(*   session lines 45-61   Client(), session id, login_by_sessionid        *)
(*   loop    lines 64-90   one target: fetch, normalise, results.append    *)
(*   push    lines 92-96   forward the record to the dataset               *)
(*   sleep   line  98      safety delay                                    *)
(*   except  lines 100-102 the handler of the per-target try               *)
(*   done    line  105     completion line                                 *)
(*   crashed               an exception left main()                        *)
(*                                                                         *)
(* Python values: a dict is a function from its keys, the value None is    *)
(* the empty tuple and a present string s is <<s>> wherever None is a      *)
(* possible value.  The input document is a JSON object, as the Actor      *)
(* input contract delivers it, or text that does not parse.                *)
(*                                                                         *)
(* The calls that leave the process can fail: login_by_sessionid,          *)
(* user_info_by_username and the forward of line 96, which stands for      *)
(* Actor.push_data.  The print calls that only write diagnostics are not   *)
(* modelled.  The logs clientLog, emitted, pushed, sleeps, owner and       *)
(* envReads record what main() did; main() never reads them.               *)
(***************************************************************************)
EXTENDS Integers, Sequences, FiniteSets, TLC

\* ---------------------------------------------------------------- bounds
MaxTargets == 2

\* ------------------------------------------------------ program constants
SafetyDelay == 2

\* ------------------------------------------------------- input universes
Names == <<"alice", "bob">>
\* seconds a call on the platform client may take
Latencies == {0, 1}
Modes == {"enrich", "followers", "export"}
SessionIds == {"", "XYZ"}
EnvSessionIds == {"", "ENV"}
\* three seconds before a minute, an hour and a day roll over together
StartTimes == {86397}
FetchErrors == {"", "User not found"}
LoginError == "login_required"
SinkError == "dataset unavailable"

None == <<>>
Some(s) == <<s>>
EmptyDict == <<>>

\* the target lists: alice, bob, alice, ... cut at every length, and one
\* list that names the same target twice
Roster(n) == [i \in 1..n |-> Names[1 + ((i - 1) % Len(Names))]]
TargetLists == {Roster(n) : n \in 0..MaxTargets} \cup {<<"bob", "bob">>}

\* ------------------------------------------------------------ python dict
\* d[k] = v
SetKey(d, k, v) == [x \in DOMAIN d \cup {k} |-> IF x = k THEN v ELSE d[x]]

\* d.get(k, default)
DictGet(d, k, default) == IF k \in DOMAIN d THEN d[k] ELSE default

\* d.get(k): None when the key is missing
DictGetOpt(d, k) == IF k \in DOMAIN d THEN Some(d[k]) ELSE None

\* truth value of an optional string: None and "" are false
Truthy(o) == o # None /\ o[1] # ""

\* a or b
PyOr(a, b) == IF Truthy(a) THEN a ELSE b

\* --------------------------------------------------------- input document
WithOpt(d, k, vals) == {d} \cup {SetKey(d, k, v) : v \in vals}

Documents ==
    UNION {UNION {WithOpt(d2, "session_id", SessionIds)
                    : d2 \in WithOpt(d1, "mode", Modes)}
             : d1 \in WithOpt(EmptyDict, "usernames", TargetLists)}

\* a text is what a file or an environment string holds
Garbage == [raw |-> "garbage", value |-> EmptyDict]
EmptyText == [raw |-> "empty", value |-> EmptyDict]
JsonText(doc) == [raw |-> "object", value |-> doc]
Texts == {JsonText(d) : d \in Documents} \cup {Garbage}

\* the environment configuration string: a fixed small choice
EnvDocument == [usernames |-> <<"bob", "alice">>, mode |-> "followers"]
EnvTexts == {Garbage, EmptyText, JsonText(EnvDocument),
             JsonText([usernames |-> <<"alice", "bob">>, session_id |-> "XYZ"]),
             JsonText([mode |-> "export", session_id |-> ""])}

\* json.load / json.loads: the decoded object, or a raised exception
JsonLoads(text) ==
    IF text.raw = "object" THEN [ok |-> TRUE, value |-> text.value]
    ELSE [ok |-> FALSE, value |-> EmptyDict]

\* ------------------------------------------------------------- timestamps
Digits == <<"0", "1", "2", "3", "4", "5", "6", "7", "8", "9">>
Digit(d) == Digits[d + 1]
Pad2(n) == <<Digit((n \div 10) % 10), Digit(n % 10)>>
Pad4(n) == <<Digit((n \div 1000) % 10), Digit((n \div 100) % 10)>> \o Pad2(n % 100)

\* time.gmtime(): seconds since the epoch to broken-down UTC time; the
\* clock of the model stays within January 1970
Gmtime(t) ==
    [tm_year |-> 1970, tm_mon |-> 1, tm_mday |-> 1 + (t \div 86400),
     tm_hour |-> (t \div 3600) % 24, tm_min |-> (t \div 60) % 60,
     tm_sec |-> t % 60]

\* time.strftime("%Y-%m-%dT%H:%M:%SZ", tm) as a sequence of characters
Strftime(tm) ==
    Pad4(tm.tm_year) \o <<"-">> \o Pad2(tm.tm_mon) \o <<"-">> \o Pad2(tm.tm_mday)
    \o <<"T">> \o Pad2(tm.tm_hour) \o <<":">> \o Pad2(tm.tm_min) \o <<":">>
    \o Pad2(tm.tm_sec) \o <<"Z">>

\* ---------------------------------------------------------- platform client
\* user_info.dict(): the attribute mappings the client may answer with
Profiles(u) ==
    IF u = "alice"
    THEN {[pk |-> 1, username |-> u]}
    ELSE {[pk |-> 12345, username |-> u, full_name |-> "Test User",
           follower_count |-> 1000]}

\* variant: data is rebuilt from the injected fields alone
NormalizeOverwrite(attrs, now) ==
    SetKey(SetKey(EmptyDict, "platform", "instagram"),
           "scrapedAt", Strftime(Gmtime(now)))

\* lines 74-78: the two injected fields
Normalize(attrs, now) ==
    SetKey(SetKey(attrs, "platform", "instagram"),
           "scrapedAt", Strftime(Gmtime(now)))

\* line 102: the record of a failed target
ErrorRecord(username, e) == [username |-> username, error |-> e]

\* ------------------------------------------------------------------ state
VARIABLES
    fileExists,   \* os.path.exists(input_file)
    fileText,     \* content of INPUT.json
    environ,      \* os.environ: APIFY_INPUT, IG_SESSION_ID, APIFY_DEFAULT_DATASET_ID
    pc,           \* position in main()
    actor_input,  \* line 18/24/31
    usernames,    \* line 35
    mode,         \* line 36
    session_id,   \* line 49
    results,      \* line 61
    idx,          \* 1-based position of the for loop in usernames
    exc,          \* message of the exception in flight to the handler
    clock,        \* seconds since the epoch
    clientLog,    \* calls made on the platform client, in order
    emitted,      \* records that reached the dataset step (lines 92-96), in order
    pushed,       \* records forwarded to the dataset, in order
    sleeps,       \* positions after which time.sleep(2) ran
    owner,        \* owner[k]: position of the target results[k] was made for
    envReads,     \* environment variables read, in order
    summary       \* the count printed by the completion line

vars == <<fileExists, fileText, environ, pc, actor_input, usernames, mode,
          session_id, results, idx, exc, clock, clientLog, emitted, pushed,
          sleeps, owner, envReads, summary>>

inputs == <<fileExists, fileText, environ>>

Init ==
    /\ fileExists \in BOOLEAN
    /\ \/ fileExists /\ fileText \in Texts
       \/ ~fileExists /\ fileText = EmptyText
    /\ environ \in [APIFY_INPUT : IF fileExists
                                  THEN {None, Some(JsonText(EnvDocument))}
                                  ELSE {None} \cup {Some(t) : t \in EnvTexts},
                    IG_SESSION_ID : {None} \cup {Some(s) : s \in EnvSessionIds},
                    APIFY_DEFAULT_DATASET_ID : {None, Some("mock_dataset")}]
    /\ pc = "load"
    /\ actor_input = EmptyDict
    /\ usernames = <<>>
    /\ mode = "enrich"
    /\ session_id = None
    /\ results = <<>>
    /\ idx = 1
    /\ exc = ""
    /\ clock \in StartTimes
    /\ clientLog = <<>>
    /\ emitted = <<>>
    /\ pushed = <<>>
    /\ sleeps = <<>>
    /\ owner = <<>>
    /\ envReads = <<>>
    /\ summary = -1

\* ---------------------------------------------------------------- actions
\* variant: a file that does not parse falls through to the environment
ResolveInputFallThrough(exists, text, envStr) ==
    IF exists /\ JsonLoads(text).ok THEN JsonLoads(text).value
    ELSE IF envStr # None /\ envStr[1].raw # "empty" /\ JsonLoads(envStr[1]).ok
         THEN JsonLoads(envStr[1]).value
         ELSE EmptyDict

\* variant: the environment string is preferred to the file
ResolveInputEnvFirst(exists, text, envStr) ==
    IF envStr # None /\ envStr[1].raw # "empty"
    THEN IF JsonLoads(envStr[1]).ok THEN JsonLoads(envStr[1]).value ELSE EmptyDict
    ELSE IF exists /\ JsonLoads(text).ok THEN JsonLoads(text).value ELSE EmptyDict

\* lines 17-33: the input file when it exists, otherwise APIFY_INPUT; any
\* exception of the block is caught and leaves actor_input empty
ResolveInput(exists, text, envStr) ==
    IF exists
    THEN IF JsonLoads(text).ok THEN JsonLoads(text).value ELSE EmptyDict
    ELSE IF envStr # None /\ envStr[1].raw # "empty" /\ JsonLoads(envStr[1]).ok
         THEN JsonLoads(envStr[1]).value
         ELSE EmptyDict

ResolveReads(exists) == IF exists THEN <<>> ELSE <<"APIFY_INPUT">>

LoadInput ==
    /\ pc = "load"
    /\ actor_input' = ResolveInput(fileExists, fileText, environ.APIFY_INPUT)
    /\ envReads' = envReads \o ResolveReads(fileExists)
    /\ pc' = "config"
    /\ UNCHANGED <<inputs, emitted, usernames, mode, session_id, results, idx, exc,
                   clock, clientLog, pushed, sleeps, owner, summary>>

\* lines 35-42
ReadConfig ==
    /\ pc = "config"
    /\ usernames' = DictGet(actor_input, "usernames", <<>>)
    /\ mode' = DictGet(actor_input, "mode", "enrich")
    /\ pc' = "session"
    /\ UNCHANGED <<inputs, emitted, actor_input, session_id, results, idx, exc, clock,
                   clientLog, pushed, sleeps, owner, envReads, summary>>

\* variant: the environment credential wins over the document's
ResolveSessionEnvFirst(doc, env) == PyOr(env.IG_SESSION_ID, DictGetOpt(doc, "session_id"))

\* variant: the environment credential is forgotten
ResolveSessionDocOnly(doc, env) == DictGetOpt(doc, "session_id")

\* lines 49-52: the document's session_id, or else IG_SESSION_ID; the
\* environment is read only when the document's value is false
ResolveSession(doc, env) == PyOr(DictGetOpt(doc, "session_id"), env.IG_SESSION_ID)

SessionReads(doc) ==
    IF Truthy(DictGetOpt(doc, "session_id")) THEN <<>> ELSE <<"IG_SESSION_ID">>

LoginCall(sid, ok, now) ==
    [op |-> "login_by_sessionid", arg |-> sid, pos |-> 0, ok |-> ok,
     ret |-> EmptyDict, at |-> now]

\* variant: "is not None" in place of the truth value
ShouldLoginNotNone(sid) == sid # None

\* lines 54-59: login exactly when the session id is true
ShouldLogin(sid) == Truthy(sid)

\* variant: a failed login is caught and the job goes on anonymously
InitSessionCatch ==
    /\ pc = "session"
    /\ LET sid == ResolveSession(actor_input, environ)
       IN /\ session_id' = sid
          /\ envReads' = envReads \o SessionReads(actor_input)
          /\ IF ShouldLogin(sid)
             THEN \E ok \in BOOLEAN :
                    /\ clientLog' = Append(clientLog, LoginCall(sid[1], ok, clock))
                    /\ pc' = "loop"
                    /\ exc' = IF ok THEN exc ELSE LoginError
             ELSE /\ pc' = "loop"
                  /\ UNCHANGED <<clientLog, exc>>
    /\ results' = <<>>
    /\ UNCHANGED <<inputs, emitted, actor_input, usernames, mode, idx, clock, pushed,
                   sleeps, owner, summary>>

\* lines 45-61: login_by_sessionid may raise, and nothing catches it
InitSession ==
    /\ pc = "session"
    /\ LET sid == ResolveSession(actor_input, environ)
       IN /\ session_id' = sid
          /\ envReads' = envReads \o SessionReads(actor_input)
          /\ IF ShouldLogin(sid)
             THEN \E ok \in BOOLEAN :
                    /\ clientLog' = Append(clientLog, LoginCall(sid[1], ok, clock))
                    /\ pc' = IF ok THEN "loop" ELSE "crashed"
                    /\ exc' = IF ok THEN exc ELSE LoginError
             ELSE /\ pc' = "loop"
                  /\ UNCHANGED <<clientLog, exc>>
    /\ results' = <<>>
    /\ UNCHANGED <<inputs, emitted, actor_input, usernames, mode, idx, clock, pushed,
                   sleeps, owner, summary>>

FetchCall(username, position, ok, ret, now) ==
    [op |-> "user_info_by_username", arg |-> username, pos |-> position,
     ok |-> ok, ret |-> ret, at |-> now]

\* variant: only enrich mode fetches the profile
ModeFetchesEnrichOnly(m) == m = "enrich"

\* line 69
ModeFetches(m) == m = "enrich" \/ m = "followers"

\* lines 64-90, the fetch answered: normalise and append the record
ScrapeOk ==
    /\ pc = "loop"
    /\ idx <= Len(usernames)
    /\ ModeFetches(mode)
    /\ \E attrs \in Profiles(usernames[idx]), d \in Latencies :
         /\ clock' = clock + d
         /\ clientLog' = Append(clientLog,
                                FetchCall(usernames[idx], idx, TRUE, attrs, clock + d))
         /\ results' = Append(results, Normalize(attrs, clock + d))
    /\ owner' = Append(owner, idx)
    /\ pc' = "push"
    /\ UNCHANGED <<inputs, emitted, actor_input, usernames, mode, session_id, idx, exc,
                   pushed, sleeps, envReads, summary>>

\* lines 64-71, the fetch raised: control goes to the handler
ScrapeFail ==
    /\ pc = "loop"
    /\ idx <= Len(usernames)
    /\ ModeFetches(mode)
    /\ \E e \in FetchErrors, d \in Latencies :
         /\ clock' = clock + d
         /\ clientLog' = Append(clientLog,
                                FetchCall(usernames[idx], idx, FALSE, EmptyDict, clock + d))
         /\ exc' = e
    /\ pc' = "except"
    /\ UNCHANGED <<inputs, emitted, actor_input, usernames, mode, session_id, results,
                   idx, pushed, sleeps, owner, envReads, summary>>

\* lines 64-90 in any other mode: data stays {} and is appended
ScrapeSkip ==
    /\ pc = "loop"
    /\ idx <= Len(usernames)
    /\ ~ModeFetches(mode)
    /\ results' = Append(results, EmptyDict)
    /\ owner' = Append(owner, idx)
    /\ pc' = "push"
    /\ UNCHANGED <<inputs, emitted, actor_input, usernames, mode, session_id, idx, exc,
                   clock, clientLog, pushed, sleeps, envReads, summary>>

\* variant: the indicator is not looked at
SinkConfiguredAlways(env) == TRUE

\* line 93
SinkConfigured(env) == Truthy(env.APIFY_DEFAULT_DATASET_ID)

\* variant: the forwarded records are kept newest first
PushPrepend ==
    /\ pc = "push"
    /\ envReads' = Append(envReads, "APIFY_DEFAULT_DATASET_ID")
    /\ emitted' = Append(emitted, [pos |-> idx, record |-> results[Len(results)]])
    /\ IF SinkConfigured(environ)
       THEN \/ /\ pushed' = <<[pos |-> idx, record |-> results[Len(results)]]>> \o pushed
               /\ pc' = "sleep"
               /\ exc' = exc
            \/ /\ pushed' = pushed
               /\ pc' = "except"
               /\ exc' = SinkError
       ELSE /\ pc' = "sleep"
            /\ UNCHANGED <<pushed, exc>>
    /\ UNCHANGED <<inputs, actor_input, usernames, mode, session_id, results,
                   idx, clock, clientLog, sleeps, owner, summary>>

\* lines 92-96: the forward stands inside the try, after results.append;
\* a forward that raises goes to the same handler as a failed fetch
Push ==
    /\ pc = "push"
    /\ envReads' = Append(envReads, "APIFY_DEFAULT_DATASET_ID")
    /\ emitted' = Append(emitted, [pos |-> idx, record |-> results[Len(results)]])
    /\ IF SinkConfigured(environ)
       THEN \/ /\ pushed' = Append(pushed, [pos |-> idx, record |-> results[Len(results)]])
               /\ pc' = "sleep"
               /\ exc' = exc
            \/ /\ pushed' = pushed
               /\ pc' = "except"
               /\ exc' = SinkError
       ELSE /\ pc' = "sleep"
            /\ UNCHANGED <<pushed, exc>>
    /\ UNCHANGED <<inputs, actor_input, usernames, mode, session_id, results,
                   idx, clock, clientLog, sleeps, owner, summary>>

\* line 98, then the next iteration
Sleep ==
    /\ pc = "sleep"
    /\ clock' = clock + SafetyDelay
    /\ sleeps' = Append(sleeps, idx)
    /\ idx' = idx + 1
    /\ pc' = "loop"
    /\ UNCHANGED <<inputs, emitted, actor_input, usernames, mode, session_id, results,
                   exc, clientLog, pushed, owner, envReads, summary>>

\* variant: the handler records the failure and tries the same target again
ExceptRetry ==
    /\ pc = "except"
    /\ results' = Append(results, ErrorRecord(usernames[idx], exc))
    /\ owner' = Append(owner, idx)
    /\ pc' = "loop"
    /\ UNCHANGED <<inputs, emitted, actor_input, usernames, mode, session_id, exc,
                   idx, clock, clientLog, pushed, sleeps, envReads, summary>>

\* variant: the try encloses the loop, the handler ends it
ExceptBreak ==
    /\ pc = "except"
    /\ results' = Append(results, ErrorRecord(usernames[idx], exc))
    /\ owner' = Append(owner, idx)
    /\ idx' = Len(usernames) + 1
    /\ pc' = "loop"
    /\ UNCHANGED <<inputs, emitted, actor_input, usernames, mode, session_id, exc,
                   clock, clientLog, pushed, sleeps, envReads, summary>>

\* variant: the handler records the failure and raises again
ExceptRaise ==
    /\ pc = "except"
    /\ results' = Append(results, ErrorRecord(usernames[idx], exc))
    /\ owner' = Append(owner, idx)
    /\ pc' = "crashed"
    /\ UNCHANGED <<inputs, emitted, actor_input, usernames, mode, session_id, exc,
                   idx, clock, clientLog, pushed, sleeps, envReads, summary>>

\* lines 100-102, then the next iteration
Except ==
    /\ pc = "except"
    /\ results' = Append(results, ErrorRecord(usernames[idx], exc))
    /\ owner' = Append(owner, idx)
    /\ idx' = idx + 1
    /\ pc' = "loop"
    /\ UNCHANGED <<inputs, emitted, actor_input, usernames, mode, session_id, exc,
                   clock, clientLog, pushed, sleeps, envReads, summary>>

\* line 105
SummaryCount(res, targets) == Len(res)

Finish ==
    /\ pc = "loop"
    /\ idx > Len(usernames)
    /\ summary' = SummaryCount(results, usernames)
    /\ pc' = "done"
    /\ UNCHANGED <<inputs, emitted, actor_input, usernames, mode, session_id, results,
                   idx, exc, clock, clientLog, pushed, sleeps, owner, envReads>>

Next ==
    \/ LoadInput
    \/ ReadConfig
    \/ InitSession
    \/ ScrapeOk
    \/ ScrapeFail
    \/ ScrapeSkip
    \/ Push
    \/ Sleep
    \/ Except
    \/ Finish

Spec == Init /\ [][Next]_vars

\* the interpreter runs main() on: a step that can be taken is taken
FairSpec == Spec /\ WF_vars(Next)

TypeOK ==
    /\ pc \in {"load", "config", "session", "loop", "push", "sleep", "except",
               "done", "crashed"}
    /\ idx \in 1..(Len(usernames) + 1)
    /\ Len(owner) = Len(results)

\* ---------------------------------------------------------------- helpers
Terminal == pc \in {"done", "crashed"}
AtLoopHead == pc \in {"loop", "done"}
IsFetch(c) == c.op = "user_info_by_username"
IsLogin(c) == c.op = "login_by_sessionid"
LogIndexes == 1..Len(clientLog)
LoginCalls == {k \in LogIndexes : IsLogin(clientLog[k])}
FetchCalls(p) == {k \in LogIndexes : IsFetch(clientLog[k]) /\ clientLog[k].pos = p}
FetchFailed(p) == \E k \in FetchCalls(p) : ~clientLog[k].ok
FetchSucceeded(p) == \E k \in FetchCalls(p) : clientLog[k].ok
RecordsOf(p) == {k \in 1..Len(results) : owner[k] = p}
Occurrences(seq, x) == Cardinality({k \in 1..Len(seq) : seq[k] = x})

\* the configuration the inputs describe: the file when it exists, else the
\* environment string, else nothing; text that does not parse gives nothing
TextDocument(text) == IF text.raw = "object" THEN text.value ELSE EmptyDict
ExpectedInput ==
    IF fileExists THEN TextDocument(fileText)
    ELSE IF environ.APIFY_INPUT = None THEN EmptyDict
    ELSE TextDocument(environ.APIFY_INPUT[1])
DocumentCredential == DictGetOpt(ExpectedInput, "session_id")
CredentialPresent == Truthy(DocumentCredential) \/ Truthy(environ.IG_SESSION_ID)

\* reading a timestamp back
IsDigit(c) == \E d \in 0..9 : Digits[d + 1] = c
DigitVal(c) == CHOOSE d \in 0..9 : Digits[d + 1] = c
Num2(ts, i) == DigitVal(ts[i]) * 10 + DigitVal(ts[i + 1])
WellFormedTs(ts) ==
    /\ Len(ts) = 20
    /\ ts[5] = "-" /\ ts[8] = "-" /\ ts[11] = "T"
    /\ ts[14] = ":" /\ ts[17] = ":" /\ ts[20] = "Z"
    /\ \A i \in {1, 2, 3, 4, 6, 7, 9, 10, 12, 13, 15, 16, 18, 19} : IsDigit(ts[i])
    /\ <<ts[1], ts[2], ts[3], ts[4]>> = <<"1", "9", "7", "0">>
    /\ Num2(ts, 6) = 1
    /\ Num2(ts, 9) \in 1..31
    /\ Num2(ts, 12) < 24 /\ Num2(ts, 15) < 60 /\ Num2(ts, 18) < 60
TsSeconds(ts) ==
    (Num2(ts, 9) - 1) * 86400 + Num2(ts, 12) * 3600 + Num2(ts, 15) * 60 + Num2(ts, 18)

\* ----------------------------------------------------------------- claims

\* C1: when main() reaches its completion line the results list holds
\* exactly one record per target, the k-th record made for the k-th target,
\* whatever the fetches and the dataset forwards did.
C1_OneRecordPerTarget ==
    pc = "done" =>
        /\ Len(results) = Len(usernames)
        /\ \A k \in 1..Len(results) : owner[k] = k

\* C2: a failed fetch does not abort the job: when main() has ended, every
\* target after a failed one has had its own fetch attempted.
C2_FailureDoesNotSkipLaterTargets ==
    Terminal =>
        \A p \in 1..Len(usernames) :
            FetchFailed(p) => \A q \in (p + 1)..Len(usernames) : FetchCalls(q) # {}

C2_Witness ==
    /\ pc = "done"
    /\ Len(usernames) = 2
    /\ FetchFailed(1)
    /\ FetchSucceeded(2)

\* C3: every record made for a target whose fetch failed has exactly the
\* two fields username and error, and the error is a non-empty string.
C3_FailureRecordShape ==
    \A k \in 1..Len(results) :
        FetchFailed(owner[k]) =>
            /\ DOMAIN results[k] = {"username", "error"}
            /\ results[k].username = usernames[owner[k]]
            /\ results[k].error # ""

\* C4: with a credential in the document or in the environment,
\* login_by_sessionid is called exactly once, before every fetch, and the
\* session decision is not taken again in the loop.
C4_AuthenticateOnceBeforeFetch ==
    CredentialPresent =>
        /\ Cardinality(LoginCalls) <= 1
        /\ pc \notin {"load", "config", "session"} => Cardinality(LoginCalls) = 1
        /\ \A k \in LogIndexes :
               IsFetch(clientLog[k]) => \E j \in LoginCalls : j < k
        /\ Occurrences(envReads, "IG_SESSION_ID") <= 1
        /\ pc \in {"loop", "push", "sleep", "except", "done"} => Truthy(session_id)

C4_Witness ==
    /\ pc = "done"
    /\ ~Truthy(DocumentCredential)
    /\ Truthy(environ.IG_SESSION_ID)
    /\ Len(clientLog) = 3
    /\ IsLogin(clientLog[1]) /\ IsFetch(clientLog[2]) /\ IsFetch(clientLog[3])

\* C5: with no credential in the document and none in the environment,
\* login_by_sessionid is never called.
C5_NoCredentialNoAuthenticate ==
    ~CredentialPresent => LoginCalls = {}

C5_Witness ==
    /\ pc = "done"
    /\ DocumentCredential = None
    /\ environ.IG_SESSION_ID = None
    /\ Len(usernames) = 2
    /\ FetchSucceeded(1) /\ FetchFailed(2)
    /\ LoginCalls = {}

\* C6: before the next target is taken up, every record made so far has
\* been handed to the dataset step, the records of failed targets included.
C6_EveryRecordEmitted ==
    AtLoopHead =>
        \A k \in 1..Len(results) :
            \E j \in 1..Len(emitted) :
                emitted[j].pos = owner[k] /\ emitted[j].record = results[k]

\* C7: before the next target is taken up, the safety delay has run exactly
\* once for every target processed so far, failed or not.
C7_DelayAfterEveryTarget ==
    AtLoopHead =>
        \A p \in 1..(idx - 1) : Occurrences(sleeps, p) = 1

\* C8: a fetch that succeeds, in enrich and in followers mode, gives a
\* record with every attribute of the client unchanged, platform =
\* "instagram" and scrapedAt = the UTC time at which the fetch returned,
\* written as YYYY-MM-DDTHH:MM:SSZ.
C8_SuccessRecord ==
    \A k \in LogIndexes :
        (IsFetch(clientLog[k]) /\ clientLog[k].ok) =>
            \E j \in RecordsOf(clientLog[k].pos) :
                /\ DOMAIN results[j] = DOMAIN clientLog[k].ret \cup {"platform", "scrapedAt"}
                /\ \A f \in DOMAIN clientLog[k].ret : results[j][f] = clientLog[k].ret[f]
                /\ results[j].platform = "instagram"
                /\ WellFormedTs(results[j].scrapedAt)
                /\ TsSeconds(results[j].scrapedAt) = clientLog[k].at

C8_Witness ==
    /\ pc = "done"
    /\ mode = "followers"
    /\ Len(usernames) = 2
    /\ FetchSucceeded(1) /\ FetchSucceeded(2)
    /\ Len(results) = 2
    /\ "follower_count" \in DOMAIN results[1]
    /\ <<results[1].scrapedAt[9], results[1].scrapedAt[10]>> = <<"0", "1">>
    /\ <<results[2].scrapedAt[9], results[2].scrapedAt[10]>> = <<"0", "2">>

\* C9: once configuration and session setup are through, the job reaches
\* its completion line whatever number of targets fail, and the count it
\* prints is the number of records in results.
C9_ReachesSummary ==
    /\ (pc = "loop") ~> (pc = "done")
    /\ [](pc = "done" => summary = Len(results))

C9_Witness ==
    /\ pc = "done"
    /\ Len(usernames) = 2
    /\ FetchFailed(1) /\ FetchFailed(2)
    /\ summary = 2

\* C10: the input file, when it exists, is the only configuration source
\* and APIFY_INPUT is not read; APIFY_INPUT is read only when the file does
\* not exist; with neither, the configuration is empty: no targets, mode
\* enrich, no credential from the document.
C10_ConfigPrecedence ==
    /\ fileExists => Occurrences(envReads, "APIFY_INPUT") = 0
    /\ pc # "load" =>
        /\ actor_input = ExpectedInput
        /\ ~fileExists => Occurrences(envReads, "APIFY_INPUT") = 1
    /\ pc \notin {"load", "config"} =>
        /\ usernames = DictGet(ExpectedInput, "usernames", <<>>)
        /\ mode = DictGet(ExpectedInput, "mode", "enrich")
        /\ (~fileExists /\ (environ.APIFY_INPUT = None
                            \/ environ.APIFY_INPUT = Some(EmptyText))) =>
              /\ usernames = <<>>
              /\ mode = "enrich"
              /\ DictGetOpt(actor_input, "session_id") = None

C10_Witness ==
    /\ pc = "done"
    /\ fileExists
    /\ fileText = JsonText([usernames |-> <<"alice">>])
    /\ environ.APIFY_INPUT = Some(JsonText(EnvDocument))
    /\ usernames = <<"alice">>
    /\ mode = "enrich"
    /\ Len(results) = 1

\* ------------------------------------------------------ claims, continued
LoginFailed == \E k \in LoginCalls : ~clientLog[k].ok
AnyFetch == \E k \in LogIndexes : IsFetch(clientLog[k])

\* the configuration source chosen by the precedence holds text that does
\* not parse
ParseFailed ==
    \/ fileExists /\ fileText.raw # "object"
    \/ ~fileExists /\ environ.APIFY_INPUT # None
                   /\ environ.APIFY_INPUT[1].raw = "garbage"

\* C11 as stated: after a parsing failure of the file or of APIFY_INPUT the
\* job goes on with the empty configuration, never fetches, is never ended
\* by an exception and completes with zero records.
C11_ParseFailureNeverFatal ==
    ParseFailed =>
        /\ pc # "load" => actor_input = EmptyDict
        /\ ~AnyFetch
        /\ results = <<>>
        /\ pc # "crashed"
        /\ pc = "done" => summary = 0

\* C11 amended: after a parsing failure the job goes on with the empty
\* configuration (no targets, mode enrich), a file that does not parse is
\* not replaced by APIFY_INPUT, no fetch is made, no record is produced,
\* and the completion line is reached with count zero unless the login
\* with the environment credential fails, which alone can end the job.
C11_ParseFailureFallsBack ==
    /\ [](ParseFailed =>
            /\ pc # "load" => actor_input = EmptyDict
            /\ pc \notin {"load", "config"} => (usernames = <<>> /\ mode = "enrich")
            /\ fileExists => Occurrences(envReads, "APIFY_INPUT") = 0
            /\ ~AnyFetch
            /\ results = <<>>
            /\ pc = "crashed" => LoginFailed
            /\ pc = "done" => summary = 0)
    /\ (ParseFailed /\ pc = "load") ~> (pc = "done" \/ LoginFailed)

C11_Witness ==
    /\ pc = "done"
    /\ fileExists
    /\ fileText = Garbage
    /\ environ.APIFY_INPUT = Some(JsonText(EnvDocument))
    /\ Truthy(environ.IG_SESSION_ID)
    /\ actor_input = EmptyDict
    /\ summary = 0

\* C12: a login that fails ends the job at its start: no fetch is made, no
\* record is produced and the completion line is never printed.
C12_AuthFailureIsFatal ==
    LoginFailed =>
        /\ pc = "crashed"
        /\ ~AnyFetch
        /\ results = <<>>
        /\ emitted = <<>>
        /\ summary = -1

C12_Witness ==
    /\ pc = "crashed"
    /\ LoginFailed
    /\ Len(usernames) = 2
    /\ ModeFetches(mode)

\* C13: login_by_sessionid receives the document's session_id when the
\* document has a non-empty one, whatever IG_SESSION_ID holds, and
\* IG_SESSION_ID only when the document has none.
C13_CredentialPrecedence ==
    /\ \A k \in LoginCalls :
          clientLog[k].arg = IF Truthy(DocumentCredential)
                             THEN DocumentCredential[1]
                             ELSE environ.IG_SESSION_ID[1]
    /\ Truthy(DocumentCredential) => Occurrences(envReads, "IG_SESSION_ID") = 0

C13_Witness ==
    /\ pc = "done"
    /\ DocumentCredential = Some("XYZ")
    /\ environ.IG_SESSION_ID = Some("ENV")
    /\ Len(clientLog) >= 2
    /\ IsLogin(clientLog[1])
    /\ clientLog[1].arg = "XYZ"

Positions(seq) == [k \in 1..Len(seq) |-> seq[k].pos]
FetchIndexes == {k \in LogIndexes : IsFetch(clientLog[k])}
\* the targets whose try block has been entered and left
Processed == {p \in 1..Len(usernames) : p < idx}
\* the forward of target p was tried and raised
SinkFailedAt(p) ==
    /\ pc # "push"
    /\ SinkConfigured(environ)
    /\ \E j \in 1..Len(emitted) : emitted[j].pos = p
    /\ \A j \in 1..Len(pushed) : pushed[j].pos # p

\* C14: records are forwarded to the dataset in input order: a record of a
\* later target is never forwarded before a record of an earlier one.
C14_ForwardOrder ==
    \A j, k \in 1..Len(pushed) : j < k => pushed[j].pos < pushed[k].pos

C14_Witness ==
    /\ pc = "done"
    /\ Len(pushed) = 2
    /\ pushed[1].record.username = "alice"
    /\ pushed[2].record.username = "bob"

\* the output-sink indicator is not in the environment
SinkAbsent == environ.APIFY_DEFAULT_DATASET_ID = None

\* C15: without APIFY_DEFAULT_DATASET_ID nothing is forwarded and nothing
\* fails for it: the job produces one record per target and reaches the
\* completion line; only a failed login can end it.
C15_NoSinkNoForward ==
    /\ [](SinkAbsent =>
            /\ pushed = <<>>
            /\ exc # SinkError
            /\ pc = "crashed" => LoginFailed
            /\ pc = "done" => /\ Len(results) = Len(usernames)
                              /\ summary = Len(usernames)
                              /\ Len(emitted) + Cardinality({p \in Processed : FetchFailed(p)})
                                    = Len(usernames))
    /\ (SinkAbsent /\ pc = "loop") ~> (pc = "done")

C15_Witness ==
    /\ pc = "done"
    /\ SinkAbsent
    /\ Len(usernames) = 2
    /\ FetchSucceeded(1) /\ FetchSucceeded(2)
    /\ Len(emitted) = 2
    /\ pushed = <<>>
    /\ summary = 2

\* C16: a forward that raises does not end the job, is not tried again,
\* and leaves the records of the run as they were: the target still has
\* exactly one record, the one that was handed to the dataset step.
C16_SinkFailureOnlyDiagnostic ==
    \A p \in 1..Len(usernames) :
        SinkFailedAt(p) =>
            /\ pc # "crashed"
            /\ Occurrences(Positions(emitted), p) = 1
            /\ \A k \in RecordsOf(p) :
                   \E j \in 1..Len(emitted) :
                       emitted[j].pos = p /\ emitted[j].record = results[k]
            /\ Cardinality(RecordsOf(p)) = 1

\* C18: no retries: user_info_by_username is called at most once for each
\* position, the positions of the calls only grow, and a position whose
\* call failed never gets a call that succeeds.
C18_NoRetries ==
    /\ \A p \in 1..Len(usernames) : Cardinality(FetchCalls(p)) <= 1
    /\ \A j, k \in FetchIndexes : j < k => clientLog[j].pos < clientLog[k].pos
    /\ \A p \in 1..Len(usernames) : FetchFailed(p) => ~FetchSucceeded(p)
    /\ \A p \in Processed : FetchFailed(p) => \A k \in RecordsOf(p) : "error" \in DOMAIN results[k]

C18_Witness ==
    /\ pc = "done"
    /\ usernames = <<"bob", "bob">>
    /\ FetchFailed(1)
    /\ FetchSucceeded(2)
    /\ Cardinality(FetchIndexes) = 2

\* C19: in followers mode the only calls on the client are the login and
\* one user_info_by_username per target, as in enrich mode, and a record has
\* the fields enrich mode gives it: the client's attributes, platform and
\* scrapedAt, and no follower attribute.
C19_FollowersLikeEnrich ==
    (mode = "followers" /\ pc \notin {"load", "config"}) =>
        /\ \A k \in LogIndexes : IsLogin(clientLog[k]) \/ IsFetch(clientLog[k])
        /\ \A p \in Processed : Cardinality(FetchCalls(p)) = 1
        /\ Cardinality(FetchIndexes) <= Len(usernames)
        /\ \A k \in 1..Len(results) : "followers_list" \notin DOMAIN results[k]
        /\ \A k \in FetchIndexes :
               clientLog[k].ok =>
                   \E j \in RecordsOf(clientLog[k].pos) :
                       results[j] = SetKey(SetKey(clientLog[k].ret, "platform", "instagram"),
                                           "scrapedAt", results[j].scrapedAt)

C19_Witness ==
    /\ pc = "done"
    /\ mode = "followers"
    /\ Len(usernames) = 2
    /\ FetchSucceeded(1) /\ FetchSucceeded(2)
    /\ Cardinality(FetchIndexes) = 2
    /\ DOMAIN results[2] = {"pk", "username", "full_name", "follower_count",
                            "platform", "scrapedAt"}

\* C20: in a mode that is neither enrich nor followers no fetch is made,
\* and at the completion line every target has exactly one record, the
\* empty mapping.
C20_OtherModeEmptyRecords ==
    (pc = "done" /\ ~ModeFetches(mode)) =>
        /\ ~AnyFetch
        /\ Len(results) = Len(usernames)
        /\ \A k \in 1..Len(results) : owner[k] = k /\ DOMAIN results[k] = {}
====
